---- MODULE Spec2Model ----
(***************************************************************************)
(* Model of ConcurrentVideoGenerator                                       *)
(* (src/runtime/workers/concurrent_generator.py): a bounded job queue, N   *)
(* worker loops run by a ThreadPoolExecutor, a result store and statistics *)
(* guarded by results_lock, and the callers of initialize / start / stop / *)
(* submit_job / get_result / get_stats.                                    *)
(***************************************************************************)
EXTENDS Integers, Sequences, FiniteSets, TLC

\* ------------------------------------------------------------------ bounds
NumWorkers == 2
MaxQueueSize == 2
MaxStarts == 2
MaxInitCalls == 2
MaxElapsed == 2

\* ------------------------------------------------------------ value sets
JobIds == {"j1", "j2"}
NeverSubmitted == "jx"
None == "None"
WorkerIds == 0 .. (NumWorkers - 1)
Threads == (1 .. MaxStarts) \X WorkerIds
NoThread == <<0, 0>>
Timeouts == {-1, 0, 1}
NoTimeout == -1

\* `duration = time.time() - start_time`: the wall-clock time a job takes,
\* here fixed per job
Duration(j) == IF j = "j1" THEN 1 ELSE 2

\* a JobResult numbering workers from one, as the log lines do
JobResultOneBased(job_id, success, output_path, duration, error, worker_id) ==
    [job_id |-> job_id, success |-> success, output_path |-> output_path,
     duration |-> duration, error |-> error, worker_id |-> worker_id + 1]

\* dataclass JobResult
JobResult(job_id, success, output_path, duration, error, worker_id) ==
    [job_id |-> job_id, success |-> success, output_path |-> output_path,
     duration |-> duration, error |-> error, worker_id |-> worker_id]

NoResult == JobResult(None, FALSE, None, 0, None, 0)

VARIABLES
    job_queue,      \* queue.Queue(maxsize=max_queue_size): jobs and None sentinels
    results,        \* dict job_id -> JobResult
    results_lock,   \* thread holding results_lock, or NoThread
    tts_model,      \* "none" | "new" (constructed) | "ready" (initialized)
    asr_model,      \* "none" | "new" | "ready"
    ditto_models,   \* list of per-worker handles, each "new" | "ready"
    executor,       \* generation of the current ThreadPoolExecutor, 0 = None
    running,        \* self.running
    stats,          \* self.stats
    wpc,            \* position of each worker loop
    wjob,           \* job held by each worker loop
    wresult,        \* JobResult returned by _process_job, not yet published
    whandle,        \* index of the DittoModel a worker is calling, -1 = none
    cpc,            \* position of the thread calling initialize/start/stop
    ci,             \* loop counter of start() / stop()
    cret,           \* what the controller's last call returned
    initCalls,      \* number of initialize() calls made
    submitRet,      \* return value of submit_job per job id
    gpc, gjob, gtimeout, gelapsed, gret,   \* the get_result caller
    gmiss,          \* the caller's last look into results found nothing
    snapshot,       \* value returned by the last get_stats()
    execCount,      \* history: times a job was passed to _process_job
    writeCount,     \* history: times results[job_id] was assigned
    dequeuers,      \* history: worker loops that dequeued the job
    outcome,        \* history: what the job's pipeline did
    stopEver,       \* history: stop() has raised the stop signal
    abandoned,      \* history: jobs queued when the stop signal was raised
    inflightAtStop, \* history: jobs in execution when the stop signal was raised
    returned,       \* history: job ids whose result get_result has returned
    audio,          \* job ids whose /tmp/audio_<job_id>.wav exists
    spc,            \* position of a second thread calling start()
    queuedAtReturn  \* history: jobs in the queue when the last stop() returned

poolVars == <<job_queue, results, results_lock, tts_model, asr_model,
              ditto_models, executor, running, stats>>
workerVars == <<wpc, wjob, wresult, whandle>>
ctlVars == <<cpc, ci, cret, initCalls>>
getVars == <<gpc, gjob, gtimeout, gelapsed, gret, gmiss>>
statVars == <<snapshot>>
histVars == <<execCount, writeCount, dequeuers, outcome, stopEver, abandoned,
              inflightAtStop, returned>>
moreVars == <<audio, spc, queuedAtReturn>>
vars == <<poolVars, workerVars, ctlVars, getVars, statVars, submitRet, histVars,
          moreVars>>

\* -------------------------------------------------------------- helpers
WorkerIdOf(t) == t[2]

\* an assignment that is lost
PutDropped(d, k, v) == d

\* `d[k] = v`
Put(d, k, v) == [x \in (DOMAIN d) \cup {k} |-> IF x = k THEN v ELSE d[x]]

RECURSIVE SumOver(_, _)
SumOver(f, S) ==
    IF S = {} THEN 0
    ELSE LET x == CHOOSE y \in S : TRUE IN f[x] + SumOver(f, S \ {x})

Live(t) == wpc[t] \notin {"unborn", "exited"}

\* a queue built with maxsize=0: never full
QueueFullNever(q) == FALSE

\* a capacity check that is off by one
QueueFullOffByOne(q) == MaxQueueSize > 0 /\ Len(q) > MaxQueueSize

\* queue.Queue.put: Full when maxsize > 0 and qsize() >= maxsize
QueueFull(q) == MaxQueueSize > 0 /\ Len(q) >= MaxQueueSize

\* a queue.LifoQueue: the newest item is at the front
EnqueuedFront(q, x) == <<x>> \o q

\* queue.Queue.put appends at the back
Enqueued(q, x) == Append(q, x)

\* a get that returns the head and leaves it queued
DequeuedPeek(q) == q

\* queue.Queue.get removes the item it returns
Dequeued(q) == Tail(q)

\* every worker taking the first handle
HandleIndexShared(worker_id) == 0

\* ditto = self.ditto_models[worker_id]
HandleIndex(worker_id) == worker_id

\* the worker loop's position after one iteration: back to `while self.running`
AfterPublish == "check"

\* a loop that ends on queue.Empty
AfterEmptyBreak == "exited"

\* a `while True:` loop, left only through a sentinel
LoopForever(r) == TRUE

\* `while self.running:`
LoopContinues(r) == r

\* the worker loop's position after queue.Empty: `continue`
AfterEmpty == "check"

\* a worker that goes on without taking the lock
LockNotTaken(t) == NoThread

\* `with self.results_lock:` makes the worker the holder
LockHolder(t) == t

\* a `with` block that leaves the lock held
LockKept(t) == t

\* the end of `with self.results_lock:` releases the lock
LockReleased(t) == NoThread

\* a read that takes the result out of the store
ReadPopped(res, job_id) == [x \in (DOMAIN res) \ {job_id} |-> res[x]]

\* get_result: `return self.results[job_id]` leaves the store as it is
Read(res, job_id) == res

\* the stats update for one published result
StatsUpdated(st, r, worker_id) ==
    [st EXCEPT !.jobs_completed = IF r.success THEN @ + 1 ELSE @,
               !.jobs_failed = IF r.success THEN @ ELSE @ + 1,
               !.total_time = @ + r.duration,
               !.worker_times[worker_id] = @ + r.duration]

\* dict.copy() copies the numbers and shares the list object: the copy's
\* worker_times is a reference to the pool's list
PoolWorkerTimes == "self.stats['worker_times']"

\* executor.shutdown(wait=False)
JoinNoWait(gen) == TRUE

\* `if self.executor: self.executor.shutdown(wait=True)`: every loop of the
\* executor has returned
JoinDone(gen) == gen = 0 \/ \A i \in WorkerIds : ~Live(<<gen, i>>)

\* a start() without the running test
StartNeverNoop(r) == FALSE

\* start(): `if self.running: return`
StartIsNoop(r) == r

\* a stop() without the running test
StopNeverNoop(r) == FALSE

\* stop(): `if not self.running: return`
StopIsNoop(r) == ~r

\* a timeout test with >= in place of >
TimedOutEarly(timeout, elapsed) ==
    timeout # NoTimeout /\ timeout # 0 /\ elapsed >= timeout

\* get_result: `if timeout and (time.time() - start) > timeout`
TimedOut(timeout, elapsed) ==
    timeout # NoTimeout /\ timeout # 0 /\ elapsed > timeout

\* ----------------------------------------------------------------- Init
Init ==
    /\ job_queue = <<>>
    /\ results = [x \in {} |-> NoResult]
    /\ results_lock = NoThread
    /\ tts_model = "none"
    /\ asr_model = "none"
    /\ ditto_models = <<>>
    /\ executor = 0
    /\ running = FALSE
    /\ stats = [jobs_completed |-> 0, jobs_failed |-> 0, total_time |-> 0,
                worker_times |-> [i \in WorkerIds |-> 0]]
    /\ wpc = [t \in Threads |-> "unborn"]
    /\ wjob = [t \in Threads |-> None]
    /\ wresult = [t \in Threads |-> NoResult]
    /\ whandle = [t \in Threads |-> -1]
    /\ cpc = "idle"
    /\ ci = 0
    /\ cret = "none"
    /\ initCalls = 0
    /\ submitRet = [j \in JobIds |-> "none"]
    /\ gpc = "idle"
    /\ gjob = None
    /\ gtimeout = NoTimeout
    /\ gelapsed = 0
    /\ gret = [kind |-> "none", val |-> NoResult]
    /\ gmiss = FALSE
    /\ snapshot = [taken |-> FALSE, jobs_completed |-> 0, jobs_failed |-> 0,
                   total_time |-> 0, worker_times |-> None, queue_size |-> 0]
    /\ execCount = [j \in JobIds |-> 0]
    /\ writeCount = [j \in JobIds |-> 0]
    /\ dequeuers = [j \in JobIds |-> {}]
    /\ outcome = [j \in JobIds |-> "none"]
    /\ stopEver = FALSE
    /\ abandoned = {}
    /\ inflightAtStop = {}
    /\ returned = {}
    /\ audio = {}
    /\ spc = "idle"
    /\ queuedAtReturn = {}

\* ------------------------------------------------------- the worker loop
\* `while self.running:`
WorkerCheck(t) ==
    /\ UNCHANGED moreVars
    /\ wpc[t] = "check"
    /\ wpc' = [wpc EXCEPT ![t] = IF LoopContinues(running) THEN "get"
                                  ELSE "exited"]
    /\ UNCHANGED <<poolVars, wjob, wresult, whandle, ctlVars, getVars,
                   statVars, submitRet, histVars>>

\* `job = self.job_queue.get(timeout=1.0)` returning an item;
\* None breaks the loop, a job enters _process_job (synthesize is called)
WorkerGet(t) ==
    /\ UNCHANGED moreVars
    /\ wpc[t] = "get"
    /\ job_queue # <<>>
    /\ LET item == Head(job_queue) IN
        /\ job_queue' = Dequeued(job_queue)
        /\ IF item = None
           THEN /\ wpc' = [wpc EXCEPT ![t] = "exited"]
                /\ UNCHANGED <<wjob, execCount, dequeuers>>
           ELSE /\ wpc' = [wpc EXCEPT ![t] = "tts"]
                /\ wjob' = [wjob EXCEPT ![t] = item]
                /\ execCount' = [execCount EXCEPT ![item] = @ + 1]
                /\ dequeuers' = [dequeuers EXCEPT ![item] = @ \cup {t}]
    /\ UNCHANGED <<results, results_lock, tts_model, asr_model, ditto_models,
                   executor, running, stats, wresult, whandle, ctlVars,
                   getVars, statVars, submitRet, writeCount, outcome,
                   stopEver, abandoned, inflightAtStop, returned>>

\* the get timed out on an empty queue: queue.Empty, `continue`
WorkerGetTimeout(t) ==
    /\ UNCHANGED moreVars
    /\ wpc[t] = "get"
    /\ job_queue = <<>>
    /\ wpc' = [wpc EXCEPT ![t] = AfterEmpty]
    /\ UNCHANGED <<poolVars, wjob, wresult, whandle, ctlVars, getVars,
                   statVars, submitRet, histVars>>

\* a _process_job without the `except`: the exception leaves the loop
FailedPropagates(t, cause) ==
    /\ wpc' = [wpc EXCEPT ![t] = "exited"]
    /\ outcome' = [outcome EXCEPT ![wjob[t]] = cause]
    /\ whandle' = [whandle EXCEPT ![t] = -1]
    /\ UNCHANGED wresult

\* _process_job's `except Exception` branch: a failed JobResult
Failed(t, cause) ==
    /\ wresult' = [wresult EXCEPT ![t] =
                     JobResult(wjob[t], FALSE, None, Duration(wjob[t]), cause,
                               WorkerIdOf(t))]
    /\ outcome' = [outcome EXCEPT ![wjob[t]] = cause]
    /\ wpc' = [wpc EXCEPT ![t] = "lock"]
    /\ whandle' = [whandle EXCEPT ![t] = -1]

\* self.tts_model.synthesize(...) returns or raises; on return the worker
\* indexes self.ditto_models[worker_id] and calls generate_video on it
WorkerTts(t) ==
    /\ UNCHANGED <<spc, queuedAtReturn>>
    /\ wpc[t] = "tts"
    /\ \/ \* tts_model is None (AttributeError), or the lazy initialize or
          \* the synthesis raises
          /\ Failed(t, "tts")
          /\ UNCHANGED audio
          /\ tts_model' \in {tts_model} \cup
                            (IF tts_model = "new" THEN {"ready"} ELSE {})
       \/ \* synthesize returns, but there is no handle at worker_id
          \* (IndexError)
          /\ tts_model # "none"
          /\ tts_model' = "ready"
          /\ HandleIndex(WorkerIdOf(t)) + 1 > Len(ditto_models)
          /\ audio' = audio \cup {wjob[t]}
          /\ Failed(t, "ditto")
       \/ \* synthesize returns and generate_video is entered
          /\ tts_model # "none"
          /\ tts_model' = "ready"
          /\ HandleIndex(WorkerIdOf(t)) + 1 <= Len(ditto_models)
          /\ audio' = audio \cup {wjob[t]}
          /\ wpc' = [wpc EXCEPT ![t] = "ditto"]
          /\ whandle' = [whandle EXCEPT ![t] = HandleIndex(WorkerIdOf(t))]
          /\ UNCHANGED <<wresult, outcome>>
    /\ UNCHANGED <<job_queue, results, results_lock, asr_model, ditto_models,
                   executor, running, stats, wjob, ctlVars, getVars, statVars,
                   submitRet, execCount, writeCount, dequeuers, stopEver,
                   abandoned, inflightAtStop, returned>>

\* ditto.generate_video(...) returns or raises (lazy initialize included),
\* then the temp audio is removed and the JobResult is built
WorkerDitto(t) ==
    /\ UNCHANGED <<spc, queuedAtReturn>>
    /\ wpc[t] = "ditto"
    /\ LET h == whandle[t] + 1 IN
       \/ \* lazy initialize raises: the handle stays uninitialized
          /\ ditto_models[h] = "new"
          /\ Failed(t, "ditto")
          /\ UNCHANGED <<ditto_models, audio>>
       \/ \* generation raises
          /\ ditto_models' = [ditto_models EXCEPT ![h] = "ready"]
          /\ Failed(t, "ditto")
          /\ UNCHANGED audio
       \/ \* generation returns, os.remove(audio_path) raises
          /\ ditto_models' = [ditto_models EXCEPT ![h] = "ready"]
          /\ Failed(t, "rm")
          /\ UNCHANGED audio
       \/ \* generation returns, cleanup done
          /\ ditto_models' = [ditto_models EXCEPT ![h] = "ready"]
          /\ wresult' = [wresult EXCEPT ![t] =
                   JobResult(wjob[t], TRUE, "video", Duration(wjob[t]), None,
                             WorkerIdOf(t))]
          /\ outcome' = [outcome EXCEPT ![wjob[t]] = "ok"]
          /\ audio' = audio \ {wjob[t]}
          /\ wpc' = [wpc EXCEPT ![t] = "lock"]
          /\ whandle' = [whandle EXCEPT ![t] = -1]
    /\ UNCHANGED <<job_queue, results, results_lock, tts_model, asr_model,
                   executor, running, stats, wjob, ctlVars, getVars, statVars,
                   submitRet, execCount, writeCount, dequeuers, stopEver,
                   abandoned, inflightAtStop, returned>>

\* `with self.results_lock:` acquire
WorkerLock(t) ==
    /\ UNCHANGED moreVars
    /\ wpc[t] = "lock"
    /\ results_lock = NoThread
    /\ results_lock' = LockHolder(t)
    /\ wpc' = [wpc EXCEPT ![t] = "store"]
    /\ UNCHANGED <<job_queue, results, tts_model, asr_model, ditto_models,
                   executor, running, stats, wjob, wresult, whandle, ctlVars,
                   getVars, statVars, submitRet, histVars>>

\* `self.results[job.job_id] = result`
WorkerStore(t) ==
    /\ UNCHANGED moreVars
    /\ wpc[t] = "store"
    /\ results' = Put(results, wjob[t], wresult[t])
    /\ writeCount' = [writeCount EXCEPT ![wjob[t]] = @ + 1]
    /\ wpc' = [wpc EXCEPT ![t] = "count"]
    /\ UNCHANGED <<job_queue, results_lock, tts_model, asr_model,
                   ditto_models, executor, running, stats, wjob, wresult,
                   whandle, ctlVars, getVars, statVars, submitRet, execCount,
                   dequeuers, outcome, stopEver, abandoned, inflightAtStop,
                   returned>>

\* the rest of the `with` block: the counter, total_time and
\* worker_times[worker_id] are updated, the lock is released, task_done(),
\* and the loop goes round
WorkerStats(t) ==
    /\ UNCHANGED moreVars
    /\ wpc[t] = "count"
    /\ stats' = StatsUpdated(stats, wresult[t], WorkerIdOf(t))
    /\ results_lock' = LockReleased(t)
    /\ wpc' = [wpc EXCEPT ![t] = AfterPublish]
    /\ wjob' = [wjob EXCEPT ![t] = None]
    /\ wresult' = [wresult EXCEPT ![t] = NoResult]
    /\ UNCHANGED <<job_queue, results, tts_model, asr_model, ditto_models,
                   executor, running, whandle, ctlVars, getVars, statVars,
                   submitRet, histVars>>

\* ------------------------------------------------- the pool controller
\* initialize(): a new XTTSModel and ASRModel are constructed and initialized
\* (either may raise, after the attribute was assigned), then num_workers
\* uninitialized DittoModel instances are appended; the controller calls it
\* before it first starts the pool
Initialize ==
    /\ UNCHANGED moreVars
    /\ cpc = "idle"
    /\ executor = 0
    /\ initCalls < MaxInitCalls
    /\ initCalls' = initCalls + 1
    /\ \/ /\ tts_model' = "new"
          /\ cret' = "init_raised"
          /\ UNCHANGED <<asr_model, ditto_models>>
       \/ /\ tts_model' = "ready"
          /\ asr_model' = "new"
          /\ cret' = "init_raised"
          /\ UNCHANGED ditto_models
       \/ /\ tts_model' = "ready"
          /\ asr_model' = "ready"
          /\ ditto_models' = ditto_models \o [i \in 1 .. NumWorkers |-> "new"]
          /\ cret' = "init_ok"
    /\ UNCHANGED <<job_queue, results, results_lock, executor, running, stats,
                   workerVars, cpc, ci, getVars, statVars, submitRet, histVars>>

\* start(): `if self.running: return`, else running = True and a new
\* ThreadPoolExecutor
StartBegin ==
    /\ UNCHANGED <<audio, spc>>
    /\ queuedAtReturn' = IF StartIsNoop(running) THEN queuedAtReturn ELSE {}
    /\ cpc = "idle"
    /\ IF StartIsNoop(running)
       THEN /\ cret' = "start_noop"
            /\ UNCHANGED <<running, executor, cpc, ci, abandoned,
                           inflightAtStop>>
       ELSE /\ executor < MaxStarts
            /\ running' = TRUE
            /\ executor' = executor + 1
            /\ cpc' = "start_submit"
            /\ ci' = 0
            /\ cret' = "none"
            /\ abandoned' = {}
            /\ inflightAtStop' = {}
    /\ UNCHANGED <<job_queue, results, results_lock, tts_model, asr_model,
                   ditto_models, stats, workerVars, initCalls, getVars,
                   statVars, submitRet, execCount, writeCount, dequeuers,
                   outcome, stopEver, returned>>

\* start(): `self.executor.submit(self._worker_loop, i)` for i in range(N)
StartSubmit ==
    /\ UNCHANGED moreVars
    /\ cpc = "start_submit"
    /\ wpc' = [wpc EXCEPT ![<<executor, ci>>] = "check"]
    /\ IF ci + 1 < NumWorkers
       THEN /\ ci' = ci + 1
            /\ UNCHANGED <<cpc, cret>>
       ELSE /\ ci' = 0
            /\ cpc' = "idle"
            /\ cret' = "start_ok"
    /\ UNCHANGED <<poolVars, wjob, wresult, whandle, initCalls, getVars,
                   statVars, submitRet, histVars>>

\* jobs between their dequeue and the end of their publication
InFlight == {wjob[t] : t \in {u \in Threads : Live(u) /\ wjob[u] # None}}

\* stop(): `if not self.running: return`, else running = False
StopBegin ==
    /\ UNCHANGED moreVars
    /\ cpc = "idle"
    /\ IF StopIsNoop(running)
       THEN /\ cret' = "stop_noop"
            /\ UNCHANGED <<running, cpc, ci, stopEver, abandoned,
                           inflightAtStop>>
       ELSE /\ running' = FALSE
            /\ cpc' = "stop_put"
            /\ ci' = 0
            /\ cret' = "none"
            /\ stopEver' = TRUE
            /\ abandoned' = {job_queue[k] : k \in DOMAIN job_queue} \ {None}
            /\ inflightAtStop' = InFlight
    /\ UNCHANGED <<job_queue, results, results_lock, tts_model, asr_model,
                   ditto_models, executor, stats, workerVars, initCalls,
                   getVars, statVars, submitRet, execCount, writeCount,
                   dequeuers, outcome, returned>>

\* stop(): `self.job_queue.put(None, timeout=1.0)`, queue.Full is swallowed
StopPut ==
    /\ UNCHANGED moreVars
    /\ cpc = "stop_put"
    /\ job_queue' = IF QueueFull(job_queue) THEN job_queue
                    ELSE Enqueued(job_queue, None)
    /\ IF ci + 1 < NumWorkers
       THEN /\ ci' = ci + 1
            /\ UNCHANGED cpc
       ELSE /\ ci' = 0
            /\ cpc' = "stop_join"
    /\ UNCHANGED <<results, results_lock, tts_model, asr_model, ditto_models,
                   executor, running, stats, workerVars, cret, initCalls,
                   getVars, statVars, submitRet, histVars>>

\* stop(): `self.executor.shutdown(wait=True)` returns, then stop() returns
StopJoin ==
    /\ UNCHANGED <<audio, spc>>
    /\ queuedAtReturn' = {job_queue[k] : k \in DOMAIN job_queue} \ {None}
    /\ cpc = "stop_join"
    /\ JoinDone(executor)
    /\ cpc' = "idle"
    /\ cret' = "stop_ok"
    /\ UNCHANGED <<poolVars, workerVars, ci, initCalls, getVars, statVars,
                   submitRet, histVars>>

\* the last stop() has returned and the pool was not started again
StopReturned == stopEver /\ ~running /\ cpc = "idle"

\* ------------------------------------------------------------ submit_job
\* `self.job_queue.put(job, block=False)`: True, or False on queue.Full
SubmitJob(j) ==
    /\ UNCHANGED moreVars
    /\ submitRet[j] = "none"
    /\ IF QueueFull(job_queue)
       THEN /\ submitRet' = [submitRet EXCEPT ![j] = "False"]
            /\ UNCHANGED job_queue
       ELSE /\ submitRet' = [submitRet EXCEPT ![j] = "True"]
            /\ job_queue' = Enqueued(job_queue, j)
    /\ UNCHANGED <<results, results_lock, tts_model, asr_model, ditto_models,
                   executor, running, stats, workerVars, ctlVars, getVars,
                   statVars, histVars>>

\* ------------------------------------------------------------ get_result
\* a caller enters get_result(job_id, timeout): `start = time.time()`
GetResultCall(j, to) ==
    /\ UNCHANGED moreVars
    /\ gpc = "idle"
    /\ gpc' = "check"
    /\ gjob' = j
    /\ gtimeout' = to
    /\ gelapsed' = 0
    /\ gret' = [kind |-> "none", val |-> NoResult]
    /\ gmiss' = FALSE
    /\ UNCHANGED <<poolVars, workerVars, ctlVars, statVars, submitRet,
                   histVars>>

\* `with self.results_lock: if job_id in self.results: return ...`
GetResultCheck ==
    /\ UNCHANGED moreVars
    /\ gpc = "check"
    /\ results_lock = NoThread
    /\ IF gjob \in DOMAIN results
       THEN /\ gret' = [kind |-> "result", val |-> results[gjob]]
            /\ gpc' = "idle"
            /\ returned' = returned \cup {gjob}
            /\ results' = Read(results, gjob)
            /\ UNCHANGED gmiss
       ELSE /\ gpc' = "tcheck"
            /\ gmiss' = TRUE
            /\ UNCHANGED <<gret, returned, results>>
    /\ UNCHANGED <<job_queue, results_lock, tts_model, asr_model,
                   ditto_models, executor, running, stats, workerVars, ctlVars, gjob, gtimeout, gelapsed,
                   statVars, submitRet, execCount, writeCount, dequeuers,
                   outcome, stopEver, abandoned, inflightAtStop>>

\* `if timeout and (time.time() - start) > timeout: return None`,
\* else `time.sleep(0.1)`: one poll interval or more goes by; the clock is
\* read only behind a truthy timeout, gelapsed is the value read
GetResultTimeoutCheck ==
    /\ UNCHANGED moreVars
    /\ gpc = "tcheck"
    /\ IF TimedOut(gtimeout, gelapsed)
       THEN /\ gret' = [kind |-> "absent", val |-> NoResult]
            /\ gpc' = "idle"
            /\ UNCHANGED gelapsed
       ELSE /\ gpc' = "check"
            /\ IF gtimeout = NoTimeout \/ gtimeout = 0
               THEN UNCHANGED gelapsed
               ELSE \E dt \in {1, 2} :
                      gelapsed' = IF gelapsed + dt > MaxElapsed
                                  THEN MaxElapsed ELSE gelapsed + dt
            /\ UNCHANGED gret
    /\ UNCHANGED <<poolVars, workerVars, ctlVars, gjob, gtimeout, gmiss,
                   statVars, submitRet, histVars>>

\* ------------------------------------------------------------- get_stats
\* `with self.results_lock: stats = self.stats.copy(); ...qsize()`:
\* the copy is shallow, worker_times stays the pool's own list
GetStats ==
    /\ UNCHANGED moreVars
    /\ results_lock = NoThread
    /\ snapshot' = [taken |-> TRUE,
                    jobs_completed |-> stats.jobs_completed,
                    jobs_failed |-> stats.jobs_failed,
                    total_time |-> stats.total_time,
                    worker_times |-> PoolWorkerTimes,
                    queue_size |-> Len(job_queue)]
    /\ UNCHANGED <<poolVars, workerVars, ctlVars, getVars, submitRet,
                   histVars>>

\* ------------------------------------------------------------------ Next
WorkerNext ==
    \/ \E t \in Threads : WorkerCheck(t)
    \/ \E t \in Threads : WorkerGet(t)
    \/ \E t \in Threads : WorkerGetTimeout(t)
    \/ \E t \in Threads : WorkerTts(t)
    \/ \E t \in Threads : WorkerDitto(t)
    \/ \E t \in Threads : WorkerLock(t)
    \/ \E t \in Threads : WorkerStore(t)
    \/ \E t \in Threads : WorkerStats(t)

\* initialize() as the controller of a pool that is initialized once calls it
InitializeOnce == initCalls = 0 /\ Initialize

ControllerNext ==
    \/ InitializeOnce
    \/ StartBegin
    \/ StartSubmit
    \/ StopBegin
    \/ StopPut
    \/ StopJoin

SubmitNext == \E j \in JobIds : SubmitJob(j)

GetResultNext ==
    \/ \E j \in JobIds \cup {NeverSubmitted}, to \in Timeouts :
          GetResultCall(j, to)
    \/ GetResultCheck
    \/ GetResultTimeoutCheck

\* the pool, its controller and the submitters
Next == WorkerNext \/ ControllerNext \/ SubmitNext

Spec == Init /\ [][Next]_vars

\* what one worker loop can do
WorkerStep(t) ==
    \/ WorkerCheck(t) \/ WorkerGet(t) \/ WorkerGetTimeout(t) \/ WorkerTts(t)
    \/ WorkerDitto(t) \/ WorkerLock(t) \/ WorkerStore(t) \/ WorkerStats(t)

\* a pool that is initialized once, started and never stopped
RunNext ==
    \/ WorkerNext
    \/ InitializeOnce
    \/ StartBegin
    \/ StartSubmit
    \/ SubmitNext

\* a pool on which initialize() is called again and again before it is
\* started
InitNext ==
    \/ WorkerNext
    \/ Initialize
    \/ StartBegin
    \/ StartSubmit
    \/ SubmitNext

InitSpec == Init /\ [][InitNext]_vars

\* threads are scheduled fairly, stages terminate, start() runs to its end
LiveSpec ==
    /\ Init
    /\ [][RunNext]_vars
    /\ \A t \in Threads : WF_vars(WorkerStep(t))
    /\ WF_vars(StartSubmit)

\* a running pool and a caller of get_result
GetNext == RunNext \/ GetResultNext

GetSpec == Init /\ [][GetNext]_vars

\* the caller of get_result is scheduled and its sleep ends
GetLiveSpec ==
    /\ Init
    /\ [][GetNext]_vars
    /\ \A t \in Threads : WF_vars(WorkerStep(t))
    /\ WF_vars(StartSubmit)
    /\ WF_vars(GetResultCheck)
    /\ WF_vars(GetResultTimeoutCheck)

\* a caller that waits for a submitted job's result, get_result(job_id)
GetResultWait == \E j \in JobIds : GetResultCall(j, NoTimeout)

\* a running pool, a caller waiting for results and a caller of get_stats
StatsNext ==
    \/ RunNext
    \/ GetResultWait
    \/ GetResultCheck
    \/ GetResultTimeoutCheck
    \/ GetStats

StatsSpec == Init /\ [][StatsNext]_vars

\* start(), stop() and restart with submitters, on a pool that was not
\* initialized (every job fails at its first stage)
LifecycleNext ==
    \/ \E t \in Threads : WorkerCheck(t)
    \/ \E t \in Threads : WorkerGet(t)
    \/ \E t \in Threads : WorkerGetTimeout(t)
    \/ \E t \in Threads : WorkerTts(t)
    \/ \E t \in Threads : WorkerLock(t)
    \/ \E t \in Threads : WorkerStore(t)
    \/ \E t \in Threads : WorkerStats(t)
    \/ StartBegin
    \/ StartSubmit
    \/ StopBegin
    \/ StopPut
    \/ StopJoin
    \/ SubmitNext

\* threads are scheduled fairly, stages terminate, a start() or stop() that
\* was entered runs on
StopLiveSpec ==
    /\ Init
    /\ [][LifecycleNext]_vars
    /\ \A t \in Threads : WF_vars(WorkerStep(t))
    /\ WF_vars(StartSubmit)
    /\ WF_vars(StopPut)
    /\ WF_vars(StopJoin)

\* start() as the controller of a pool that is started once calls it: on
\* the new pool, or again while it runs
StartOnce == (executor = 0 \/ running) /\ StartBegin

\* every operation of the pool's users on a pool that is started once and
\* was not initialized (every job fails at its first stage)
AllNext ==
    \/ \E t \in Threads : WorkerCheck(t)
    \/ \E t \in Threads : WorkerGet(t)
    \/ \E t \in Threads : WorkerGetTimeout(t)
    \/ \E t \in Threads : WorkerTts(t)
    \/ \E t \in Threads : WorkerLock(t)
    \/ \E t \in Threads : WorkerStore(t)
    \/ \E t \in Threads : WorkerStats(t)
    \/ StartOnce
    \/ StartSubmit
    \/ StopBegin
    \/ StopPut
    \/ StopJoin
    \/ SubmitNext
    \/ GetResultWait
    \/ GetResultCheck
    \/ GetResultTimeoutCheck
    \/ GetStats

AllSpec == Init /\ [][AllNext]_vars

\* the queue's traffic: submitters, start() and stop(), a caller of
\* get_stats, and the worker loops of a pool that was not initialized (every
\* job fails at its first stage)
QueueNext ==
    \/ \E t \in Threads : WorkerCheck(t)
    \/ \E t \in Threads : WorkerGet(t)
    \/ \E t \in Threads : WorkerGetTimeout(t)
    \/ \E t \in Threads : WorkerTts(t)
    \/ \E t \in Threads : WorkerLock(t)
    \/ \E t \in Threads : WorkerStore(t)
    \/ \E t \in Threads : WorkerStats(t)
    \/ StartBegin
    \/ StartSubmit
    \/ StopBegin
    \/ StopPut
    \/ StopJoin
    \/ SubmitNext
    \/ GetStats

QueueSpec == Init /\ [][QueueNext]_vars

\* a caller that asks for a result that is in the store, with any timeout
GetResultStored ==
    \E j \in DOMAIN results, to \in Timeouts : GetResultCall(j, to)

\* a pool that is started once and stopped, its submitters, and callers of
\* get_result for stored results and of get_stats, on a pool that was not
\* initialized (every job fails at its first stage)
ReadNext ==
    \/ \E t \in Threads : WorkerCheck(t)
    \/ \E t \in Threads : WorkerGet(t)
    \/ \E t \in Threads : WorkerGetTimeout(t)
    \/ \E t \in Threads : WorkerTts(t)
    \/ \E t \in Threads : WorkerLock(t)
    \/ \E t \in Threads : WorkerStore(t)
    \/ \E t \in Threads : WorkerStats(t)
    \/ StartOnce
    \/ StartSubmit
    \/ StopBegin
    \/ StopPut
    \/ StopJoin
    \/ SubmitNext
    \/ GetResultStored
    \/ GetResultCheck
    \/ GetStats

ReadSpec == Init /\ [][ReadNext]_vars

\* `ditto = self.ditto_models[worker_id]` has nothing to return for the
\* worker loop t: there is no handle at its index
HandleUnusable(t) == HandleIndex(WorkerIdOf(t)) + 1 > Len(ditto_models)

\* a second thread in start(): the test `if self.running` alone; the thread
\* returns, or goes on to line 149 with what it has read
Start2Check ==
    /\ spc = "idle"
    /\ spc' = IF StartIsNoop(running) THEN "done" ELSE "passed"
    /\ UNCHANGED <<poolVars, workerVars, ctlVars, getVars, statVars,
                   submitRet, histVars, audio, queuedAtReturn>>

\* the second thread past the test: running = True, a new
\* ThreadPoolExecutor replaces self.executor and takes num_workers loops;
\* taken as one step, while the first caller is not inside its own start()
Start2Launch ==
    /\ spc = "passed"
    /\ cpc = "idle"
    /\ executor < MaxStarts
    /\ spc' = "done"
    /\ running' = TRUE
    /\ executor' = executor + 1
    /\ wpc' = [t \in Threads |->
                 IF t[1] = executor + 1 THEN "check" ELSE wpc[t]]
    /\ abandoned' = {}
    /\ inflightAtStop' = {}
    /\ queuedAtReturn' = {}
    /\ UNCHANGED <<job_queue, results, results_lock, tts_model, asr_model,
                   ditto_models, stats, wjob, wresult, whandle, ctlVars,
                   getVars, statVars, submitRet, execCount, writeCount,
                   dequeuers, outcome, stopEver, returned, audio>>

\* two threads calling start() on a pool that was not initialized, its
\* worker loops and its submitters
RaceNext ==
    \/ \E t \in Threads : WorkerCheck(t)
    \/ \E t \in Threads : WorkerGet(t)
    \/ \E t \in Threads : WorkerGetTimeout(t)
    \/ \E t \in Threads : WorkerTts(t)
    \/ \E t \in Threads : WorkerLock(t)
    \/ \E t \in Threads : WorkerStore(t)
    \/ \E t \in Threads : WorkerStats(t)
    \/ StartBegin
    \/ StartSubmit
    \/ Start2Check
    \/ Start2Launch
    \/ SubmitNext

RaceSpec == Init /\ [][RaceNext]_vars

\* ================================================================ claims
QueuedJobs == {job_queue[k] : k \in DOMAIN job_queue} \ {None}

\* C1: a job accepted by submit_job is dequeued by at most one worker loop,
\* passed to _process_job at most once (also when it fails) and its id
\* receives at most one JobResult write; only accepted jobs are executed.
C1_AtMostOnce ==
    \A j \in JobIds :
        /\ execCount[j] <= 1
        /\ writeCount[j] <= 1
        /\ Cardinality(dequeuers[j]) <= 1
        /\ execCount[j] = 1 => submitRet[j] = "True" /\ j \notin QueuedJobs
        /\ writeCount[j] <= execCount[j]

\* both jobs were executed, by different loops, one of them failing
C1_Witness ==
    \E j, k \in JobIds :
        /\ j # k
        /\ writeCount[j] = 1 /\ writeCount[k] = 1
        /\ ~results[j].success
        /\ dequeuers[j] # dequeuers[k]

C3_EventuallyResult ==
    \A j \in JobIds :
        (submitRet[j] = "True" /\ running) ~> (j \in DOMAIN results)

\* both accepted jobs have their results while the pool is running
C3_Witness ==
    /\ running
    /\ \A j \in JobIds : submitRet[j] = "True" /\ j \in DOMAIN results
    /\ \E j \in JobIds : results[j].success

\* C4: submit_job never blocks; on a full queue it returns False and leaves
\* queue, results and stats unchanged, and the rejected job is never queued
\* nor executed; otherwise it appends the job at the tail and returns True.
C4_SubmitStep ==
    \A j \in JobIds :
        (submitRet[j] = "none" /\ submitRet'[j] # "none") =>
            IF Len(job_queue) >= MaxQueueSize
            THEN /\ submitRet'[j] = "False"
                 /\ UNCHANGED <<job_queue, results, stats>>
            ELSE /\ submitRet'[j] = "True"
                 /\ job_queue' = Append(job_queue, j)

C4_Rejected ==
    \A j \in JobIds :
        /\ submitRet[j] = "none" => ENABLED SubmitJob(j)
        /\ submitRet[j] = "False" =>
              /\ j \notin QueuedJobs
              /\ j \notin DOMAIN results
              /\ execCount[j] = 0

C4_Backpressure == [][C4_SubmitStep]_vars /\ []C4_Rejected

\* the queue holds max_queue_size items, an accepted job that was not
\* dequeued among them, and the next submission was rejected
C4_Witness ==
    \E j \in JobIds :
        /\ submitRet[j] = "False"
        /\ Len(job_queue) = MaxQueueSize
        /\ \E k \in DOMAIN job_queue : job_queue[k] \in JobIds \ {j}
        /\ \A k \in JobIds : execCount[k] = 0

\* C5: a stage that raises for a job yields JobResult(success=False,
\* error=cause) for that job; the worker neither leaves its loop from a
\* stage nor after publishing; another job's result depends only on what
\* its own pipeline did.
C5_OwnOutcome ==
    \A j \in DOMAIN results :
        /\ results[j].success <=> outcome[j] = "ok"
        /\ ~results[j].success => results[j].error = outcome[j]

C5_StaysInLoop ==
    \A t \in Threads :
        /\ wpc[t] \in {"tts", "ditto"} => wpc'[t] \in {"tts", "ditto", "lock"}
        /\ (wpc[t] = "count" /\ wpc'[t] # "count") => wpc'[t] = "check"

C5_FailureIsolated == []C5_OwnOutcome /\ [][C5_StaysInLoop]_vars

\* the loop that published a failed result for one job is now executing
\* another, and a loop that took a job after a failure has succeeded
C5_Witness ==
    \E a, b \in JobIds, t \in Threads :
        /\ a # b
        /\ a \in DOMAIN results /\ results[a].error \in {"tts", "ditto"}
        /\ dequeuers[a] = {t}
        /\ wjob[t] = b /\ wpc[t] = "lock" /\ wresult[t].success

\* C6: when stop() has returned, every worker loop has exited and every job
\* that was in a worker's hands when stop() was called has its JobResult in
\* the store and counted in the stats.
C6_StopReturns ==
    cret = "stop_ok" =>
        /\ \A t \in Threads : ~Live(t)
        /\ inflightAtStop \subseteq DOMAIN results
        /\ results_lock = NoThread
        /\ stats.jobs_completed =
              Cardinality({j \in DOMAIN results : results[j].success})
        /\ stats.jobs_failed =
              Cardinality({j \in DOMAIN results : ~results[j].success})
        /\ stats.total_time =
              SumOver([j \in DOMAIN results |-> results[j].duration],
                      DOMAIN results)

\* stop() has returned and jobs were in flight when it was called
C6_Witness == cret = "stop_ok" /\ Cardinality(inflightAtStop) = NumWorkers

\* C7: a job still in the queue when stop() raises the stop signal never
\* produces a JobResult.
C7_QueuedNeverProduce == \A j \in abandoned : j \notin DOMAIN results

\* C8: get_result(job_id, timeout) with a timeout that is not None, 0
\* included, terminates.
C8_GetResultTerminates ==
    (gpc # "idle" /\ gtimeout # NoTimeout) ~> (gpc = "idle")

\* C9: get_result returns None only for a timeout that is not None, after
\* more than the timeout has elapsed and after a look into the store that
\* found no result; for an id never submitted it returns nothing else; with
\* timeout=None it only ever returns the stored JobResult.
C9_AbsentOnlyAfterTimeout ==
    /\ gret.kind = "absent" =>
          /\ gtimeout # NoTimeout
          /\ gelapsed > gtimeout
          /\ gmiss
    /\ (gret.kind # "none" /\ gjob = NeverSubmitted) => gret.kind = "absent"
    /\ (gret.kind # "none" /\ gtimeout = NoTimeout) => gret.kind = "result"
    /\ gret.kind = "result" =>
          /\ gjob \in DOMAIN results
          /\ gret.val = results[gjob]

\* a call for an id never submitted has returned None after its timeout
C9_Witness ==
    /\ gret.kind = "absent"
    /\ gjob = NeverSubmitted
    /\ gtimeout = 1
    /\ gelapsed > 1

\* what a caller reads in the dict get_stats() returned to it
SnapshotRead ==
    [jobs_completed |-> snapshot.jobs_completed,
     jobs_failed |-> snapshot.jobs_failed,
     total_time |-> snapshot.total_time,
     worker_times |-> IF snapshot.worker_times = PoolWorkerTimes
                      THEN stats.worker_times ELSE <<>>,
     queue_size |-> snapshot.queue_size]

\* C10: whenever results_lock is free, jobs_completed and jobs_failed count
\* the successful and the failed results written, and total_time, the sum
\* of worker_times and the sum of the results' durations agree; a get_stats
\* snapshot covers, with the matching split, every result get_result has
\* returned before.
ResultIds(ok) == {j \in DOMAIN results : results[j].success = ok}

C10_Consistent ==
    results_lock = NoThread =>
        /\ stats.jobs_completed = Cardinality(ResultIds(TRUE))
        /\ stats.jobs_failed = Cardinality(ResultIds(FALSE))
        /\ stats.total_time = SumOver(stats.worker_times, WorkerIds)
        /\ stats.total_time =
              SumOver([j \in DOMAIN results |-> results[j].duration],
                      DOMAIN results)

C10_SnapshotStep ==
    snapshot' # snapshot =>
        /\ snapshot'.jobs_completed >= Cardinality(returned \cap ResultIds(TRUE))
        /\ snapshot'.jobs_failed >= Cardinality(returned \cap ResultIds(FALSE))
        /\ snapshot'.jobs_completed + snapshot'.jobs_failed
              >= Cardinality(returned)

C10_StatsAtomic == []C10_Consistent /\ [][C10_SnapshotStep]_vars

\* get_result has returned a successful and a failed result and get_stats
\* has reported both
C10_Witness ==
    /\ Cardinality(returned) = 2
    /\ snapshot.jobs_completed = 1
    /\ snapshot.jobs_failed = 1
    /\ snapshot.total_time = 3

\* C11: the dict returned by get_stats() is a point-in-time copy: as long
\* as the caller holds it, no step of the pool changes a value read from it,
\* worker_times included.
C11_SnapshotFrozen ==
    [][(snapshot.taken /\ snapshot' = snapshot)
          => SnapshotRead' = SnapshotRead]_vars

\* an initialize() has run to its end: the handles are appended last
InitializeCompleted == Len(ditto_models) >= NumWorkers

\* C12: initialize() is idempotent: a call made after an initialize() that
\* completed leaves tts_model, asr_model and ditto_models as they are, and
\* the pool has num_workers per-worker handles.
C12_InitializeIdempotent ==
    [][(InitializeCompleted /\ initCalls' # initCalls)
          => /\ UNCHANGED <<tts_model, asr_model, ditto_models>>
             /\ Len(ditto_models') = NumWorkers]_vars

\* C13: worker loops are launched only on a pool whose initialize() has
\* completed: no loop is live, and no job is dequeued, on a pool that was
\* never initialized or whose initialize() raised.
C13_StartNeedsInitialize ==
    /\ \A t \in Threads : Live(t) => InitializeCompleted
    /\ \A j \in JobIds : execCount[j] > 0 => InitializeCompleted

\* C14: start() on a running pool is a no-op: it launches no loop, leaves
\* every worker loop and the pool's state as they are and does not replace
\* the executor.
C14_StartStep ==
    (cpc = "idle" /\ running) =>
        /\ cpc' # "start_submit"
        /\ executor' = executor
        /\ (cret' = "start_noop" /\ cret # "start_noop")
              => UNCHANGED <<poolVars, workerVars>>

C14_StartIdempotent == [][C14_StartStep]_vars

\* start() has returned from a running pool whose N loops are live
C14_Witness ==
    /\ cret = "start_noop"
    /\ running
    /\ \A i \in WorkerIds : Live(<<executor, i>>)

\* C15: stop() on a pool that is not running, never started or already
\* stopped, is a no-op: no sentinel is enqueued, and the queue, the result
\* store, the stats and the running flag are left unchanged.
C15_StopStep ==
    (cpc = "idle" /\ ~running) =>
        /\ cpc' # "stop_put"
        /\ (cret' = "stop_noop" /\ cret # "stop_noop")
              => UNCHANGED <<job_queue, results, stats, running>>

C15_StopIdempotent == [][C15_StopStep]_vars

\* a second stop() has returned after a completed stop()
C15_Witness ==
    /\ cret = "stop_noop"
    /\ stopEver
    /\ ~running

\* the positions of a worker loop between a dequeue and the end of the
\* publication
Stages == {"tts", "ditto", "lock", "store", "count"}

\* C16: a worker holds one job at a time, from its dequeue to the end of
\* the publication; when it lets the job go, the job's id has received
\* exactly one JobResult, in the store; the loop neither exits nor dequeues
\* while it holds a job, so no dequeued job, failed or not, is without a
\* result or a worker about to publish one.
C16_OneAtATime ==
    /\ \A t \in Threads : (wjob[t] # None) <=> (wpc[t] \in Stages)
    /\ \A j \in JobIds :
          execCount[j] > 0 =>
              \/ j \in DOMAIN results /\ writeCount[j] = 1
              \/ \E t \in Threads : wjob[t] = j /\ wpc[t] \in Stages

C16_LetGo ==
    \A t \in Threads :
        (wjob[t] # None /\ wjob'[t] # wjob[t]) =>
            /\ wjob[t] \in DOMAIN results'
            /\ results'[wjob[t]].job_id = wjob[t]
            /\ writeCount'[wjob[t]] = 1
            /\ wjob'[t] = None

C16_DequeueExecutePublish == []C16_OneAtATime /\ [][C16_LetGo]_vars

\* a worker has published a failed job and is at its next dequeue
C16_Witness ==
    \E t \in Threads, j \in JobIds :
        /\ j \in DOMAIN results
        /\ ~results[j].success
        /\ dequeuers[j] = {t}
        /\ wpc[t] = "get"
        /\ wjob[t] = None

\* C17: the job queue never holds more than max_queue_size items, jobs and
\* sentinels together, and get_stats() never reports a larger queue_size.
C17_QueueBounded ==
    /\ Len(job_queue) <= MaxQueueSize
    /\ snapshot.queue_size <= MaxQueueSize

\* the queue is full with a stop sentinel in it, a submit was refused and
\* get_stats() has reported the full queue
C17_Witness ==
    /\ Len(job_queue) = MaxQueueSize
    /\ \E k \in DOMAIN job_queue : job_queue[k] = None
    /\ \E j \in JobIds : submitRet[j] = "False"
    /\ snapshot.taken
    /\ snapshot.queue_size = MaxQueueSize

\* C18: every JobResult in the store is stored under its own job_id, the id
\* of a job that a worker with that worker_id dequeued, has worker_id in
\* [0, num_workers), output_path set iff success and error set iff not
\* success.
C18_ResultWellFormed ==
    \A j \in DOMAIN results :
        /\ results[j].job_id = j
        /\ j \in JobIds
        /\ results[j].worker_id \in WorkerIds
        /\ \E t \in dequeuers[j] : WorkerIdOf(t) = results[j].worker_id
        /\ (results[j].output_path # None) <=> results[j].success
        /\ (results[j].error # None) <=> ~results[j].success

\* the store holds a successful and a failed result
C18_Witness ==
    \E j, k \in DOMAIN results : results[j].success /\ ~results[k].success

\* C19: a job whose synthesis and animation succeeded and whose audio file
\* could not be deleted has a JobResult with success=True and its
\* output_path.
C19_CleanupNotEscalated ==
    \A j \in DOMAIN results :
        outcome[j] = "rm" =>
            results[j].success /\ results[j].output_path # None

\* C20: after an initialize() that completed, every per-worker handle is
\* initialized.
C20_HandlesInitialized ==
    InitializeCompleted =>
        \A i \in DOMAIN ditto_models : ditto_models[i] = "ready"

\* C21: once a job's result is published, its audio file is gone, when the
\* job succeeded and when the animation stage failed after the synthesis.
C21_AudioDeleted ==
    \A j \in DOMAIN results :
        outcome[j] \in {"ok", "ditto"} => j \notin audio

\* C22: under fair scheduling and terminating stages, a stop() that has set
\* the flag returns, with every worker loop of the executor out of its loop.
C22_StopTerminates ==
    (cpc = "stop_put") ~>
        (/\ cpc = "idle"
         /\ cret = "stop_ok"
         /\ \A i \in WorkerIds : ~Live(<<executor, i>>))

\* stop() has returned although the queue was full of jobs and took no
\* sentinel
C22_Witness ==
    /\ cret = "stop_ok"
    /\ Len(job_queue) = MaxQueueSize
    /\ \A k \in DOMAIN job_queue : job_queue[k] # None
    /\ abandoned = QueuedJobs

\* C23: results_lock is never held by a worker that executes a stage; its
\* holder is inside the `with` block and can finish it; and whatever stage
\* the workers are in, a free lock can be taken by a publishing worker, by
\* get_result and by get_stats, a worker at its dequeue gets an item or its
\* timeout, and submit_job returns.
C23_Parallel ==
    /\ \A t \in Threads : wpc[t] \in {"tts", "ditto"} => results_lock # t
    /\ results_lock # NoThread =>
          /\ wpc[results_lock] \in {"store", "count"}
          /\ ENABLED WorkerStep(results_lock)
    /\ results_lock = NoThread =>
          /\ ENABLED GetStats
          /\ gpc = "check" => ENABLED GetResultCheck
          /\ \A u \in Threads : wpc[u] = "lock" => ENABLED WorkerLock(u)
    /\ \A u \in Threads : wpc[u] = "get" => ENABLED WorkerStep(u)
    /\ \A j \in JobIds : submitRet[j] = "none" => ENABLED SubmitJob(j)

\* two workers execute different jobs at the same time, one in the
\* synthesis and one in the animation stage
C23_Witness ==
    \E t, u \in Threads :
        /\ wpc[t] = "ditto"
        /\ wpc[u] = "tts"
        /\ wjob[t] # wjob[u]
        /\ results_lock = NoThread

\* C24: a stored JobResult is never removed or changed by any step, and a
\* get_result for a stored job id returns that JobResult at its first look
\* into the store, without sleeping, whatever the timeout and however often
\* it was returned before.
C24_Kept ==
    [][\A j \in DOMAIN results :
          j \in DOMAIN results' /\ results'[j] = results[j]]_vars

C24_ReadAtOnce ==
    [][gpc = "check" /\ gpc' # "check" /\ gjob \in DOMAIN results =>
          /\ gpc' = "idle"
          /\ gret' = [kind |-> "result", val |-> results[gjob]]
          /\ gelapsed' = 0]_vars

C24_NonDestructive == C24_Kept /\ C24_ReadAtOnce

\* a result that get_result has returned before is asked for again with a
\* timeout, after stop() has returned and get_stats has been called
C24_Witness ==
    /\ gpc = "check"
    /\ gjob \in returned
    /\ gtimeout = 1
    /\ gjob \in DOMAIN results
    /\ cret = "stop_ok"
    /\ snapshot.taken

\* C25: jobs leave the queue in the order submit_job accepted them: an
\* accepted job goes behind every job still queued, no step reorders the
\* queued jobs, and a job is dequeued only when no other job is queued ahead
\* of it. Nothing is asserted about the order of the writes to results.
Pos(q, x) == CHOOSE k \in DOMAIN q : q[k] = x

C25_AcceptedLast ==
    [][\A b \in JobIds :
          submitRet[b] = "none" /\ submitRet'[b] = "True" =>
              /\ b \in QueuedJobs'
              /\ \A a \in QueuedJobs :
                    /\ a \in QueuedJobs'
                    /\ Pos(job_queue', a) < Pos(job_queue', b)]_vars

C25_OrderKept ==
    [][\A a, b \in QueuedJobs :
          /\ Pos(job_queue, a) < Pos(job_queue, b)
          /\ a \in QueuedJobs'
          /\ b \in QueuedJobs'
          => Pos(job_queue', a) < Pos(job_queue', b)]_vars

C25_HeadFirst ==
    [][\A a, b \in QueuedJobs :
          Pos(job_queue, a) < Pos(job_queue, b) =>
              /\ b \in QueuedJobs'
              /\ dequeuers'[b] = dequeuers[b]
              /\ execCount'[b] = execCount[b]]_vars

C25_Fifo == C25_AcceptedLast /\ C25_OrderKept /\ C25_HeadFirst

\* two accepted jobs are queued and a live worker is at its dequeue
C25_Witness ==
    /\ Cardinality(QueuedJobs) = 2
    /\ \E t \in Threads : Live(t) /\ wpc[t] = "get"

\* C26: a worker loop that has no handle at its index and has published the
\* failed result of the job that ran into it is out of its loop: it is not
\* back at the loop's test, at the dequeue or in a further job.
C26_UnusableHandleExits ==
    \A t \in Threads, j \in JobIds :
        /\ HandleUnusable(t)
        /\ j \in DOMAIN results
        /\ results[j].error = "ditto"
        /\ dequeuers[j] = {t}
        /\ wjob[t] # j
        => wpc[t] = "exited"

\* C27: while the pool runs, no worker loop of its executor has left its
\* loop: the loops launched by the last start() are alive until stop().
C27_ExitOnlyStopped ==
    \A t \in Threads :
        t[1] = executor /\ running => wpc[t] # "exited"

\* C28: no thread waits in a cycle. The holder of results_lock is a worker
\* inside its `with` block, which can always run on and release; no worker
\* is at the loop test or at the blocking dequeue with results_lock held; a
\* thread that wants results_lock gets it or waits for a holder that can run
\* on; stop()'s put and submit_job never block; and a stop() waiting in
\* shutdown(wait=True) waits for worker loops of which one can step.
LockHolderRuns ==
    /\ results_lock # NoThread
    /\ wpc[results_lock] \in {"store", "count"}
    /\ ENABLED WorkerStep(results_lock)

C28_NoDeadlock ==
    /\ results_lock # NoThread => LockHolderRuns
    /\ \A t \in Threads :
          wpc[t] \in {"check", "get", "tts", "exited", "unborn"} =>
              results_lock # t
    /\ \A t \in Threads :
          wpc[t] = "lock" => ENABLED WorkerLock(t) \/ LockHolderRuns
    /\ \A t \in Threads :
          wpc[t] \in {"check", "get", "tts"} => ENABLED WorkerStep(t)
    /\ gpc = "check" => ENABLED GetResultCheck \/ LockHolderRuns
    /\ gpc = "tcheck" => ENABLED GetResultTimeoutCheck
    /\ ENABLED GetStats \/ LockHolderRuns
    /\ \A j \in JobIds : submitRet[j] = "none" => ENABLED SubmitJob(j)
    /\ cpc = "stop_put" => ENABLED StopPut
    /\ cpc = "stop_join" =>
          ENABLED StopJoin \/ \E t \in Threads : ENABLED WorkerStep(t)

\* stop() waits in shutdown while one worker holds results_lock, the other
\* waits for it and get_result is about to look into results
C28_Witness ==
    /\ cpc = "stop_join"
    /\ results_lock # NoThread
    /\ \E t \in Threads : wpc[t] = "lock"
    /\ gpc = "check"
    /\ Len(job_queue) = MaxQueueSize

\* C29: with two threads in start() and no stop(), at most NumWorkers loops
\* were ever launched and no two live loops have the same worker_id.
C29_StartThreadSafe ==
    /\ Cardinality({t \in Threads : wpc[t] # "unborn"}) <= NumWorkers
    /\ \A t, u \in Threads :
          Live(t) /\ Live(u) /\ t # u => WorkerIdOf(t) # WorkerIdOf(u)

\* C30: submit_job answers True exactly when the queue has room, whatever
\* the pool's lifecycle state; a job queued in a running pool is executed
\* unless the pool is stopped; and a job accepted after stop() has returned
\* is never executed by any worker.
C30_ByOccupancy ==
    [][\A j \in JobIds :
          submitRet[j] = "none" /\ submitRet'[j] # "none" =>
              (submitRet'[j] = "True" <=> Len(job_queue) < MaxQueueSize)]_vars

C30_ExecutedOnceStarted ==
    \A j \in JobIds :
        (j \in QueuedJobs /\ running) ~> (execCount[j] > 0 \/ ~running)

C30_NeverAfterStop ==
    \A j \in JobIds :
        [](StopReturned /\ j \in QueuedJobs /\ j \notin queuedAtReturn =>
              [](execCount[j] = 0))

C30_SubmitAnyState ==
    C30_ByOccupancy /\ C30_ExecutedOnceStarted /\ C30_NeverAfterStop

====
